---- MODULE Spec2Model ----
(***************************************************************************)
(* nl-wireguard: the translators between the flat configuration records    *)
(* (WireguardParsed, WireguardPeerParsed, WireguardIpAddress) and the      *)
(* netlink attribute lists, the key codec, the Debug renderings, and the   *)
(* request/reply sequencing of WireguardHandle.                            *)
(*                                                                         *)
(* Conventions.  Option<T>: None is <<>>, Some(v) is <<v>>.                 *)
(* Result<T,E>: <<"Ok", v>> or <<"Err", e>>.  An enum value is a tuple      *)
(* whose first element is the variant name.  A String that is a key is a   *)
(* sequence of base64 symbols (0..63 the alphabet, PadSym '=', anything    *)
(* above PadSym a character outside the alphabet).  A 64-bit integer is four 16-bit limbs *)
(* (little endian, two's complement), since the values the code compares   *)
(* against (u32::MAX, i64::MAX) do not fit the checker's integers.         *)
(***************************************************************************)
EXTENDS Integers, Sequences, FiniteSets, TLC

\* ------------------------------------------------------------ Option / Result

None == <<>>

Some(v) == <<v>>

IsSome(o) == Len(o) = 1

Unwrap(o) == o[1]

Ok(v) == <<"Ok", v>>

Err(e) == <<"Err", e>>

IsOk(r) == r[1] = "Ok"

IsErr(r) == r[1] = "Err"

\* The sequences over S of length 0..n.
SeqUpTo(S, n) == UNION {[1..k -> S] : k \in 0..n}

\* ------------------------------------------------------------------ error.rs

ErrorKind == {"Bug", "NetlinkError", "DecodeError", "InvalidKey"}

WireguardError(kind, msg, netlink_msg) ==
    [kind |-> kind, msg |-> msg, netlink_msg |-> netlink_msg]

\* ------------------------------------------------- base64 (BASE64_STANDARD)

PadSym == 64

\* A character outside the alphabet.
BadSym == PadSym + 1

\* BASE64_STANDARD.encode: three bytes to four symbols, '=' padding.
RECURSIVE Base64Encode(_)
Base64Encode(b) ==
    IF Len(b) = 0 THEN <<>>
    ELSE IF Len(b) = 1 THEN
        <<b[1] \div 4, (b[1] % 4) * 16, PadSym, PadSym>>
    ELSE IF Len(b) = 2 THEN
        <<b[1] \div 4, (b[1] % 4) * 16 + (b[2] \div 16), (b[2] % 16) * 4,
          PadSym>>
    ELSE
        <<b[1] \div 4, (b[1] % 4) * 16 + (b[2] \div 16),
          (b[2] % 16) * 4 + (b[3] \div 64), b[3] % 64>>
        \o Base64Encode(SubSeq(b, 4, Len(b)))

\* The number of leading symbols of s that are not padding.
RECURSIVE DataLen(_)
DataLen(s) ==
    IF Len(s) = 0 \/ s[1] = PadSym THEN 0 ELSE 1 + DataLen(Tail(s))

\* The bytes of a run of data symbols whose length is 0, 2 or 3 modulo 4.
RECURSIVE DecodeQuads(_)
DecodeQuads(s) ==
    IF Len(s) < 2 THEN <<>>
    ELSE IF Len(s) = 2 THEN <<s[1] * 4 + (s[2] \div 16)>>
    ELSE IF Len(s) = 3 THEN
        <<s[1] * 4 + (s[2] \div 16), (s[2] % 16) * 16 + (s[3] \div 4)>>
    ELSE
        <<s[1] * 4 + (s[2] \div 16), (s[2] % 16) * 16 + (s[3] \div 4),
          (s[3] % 4) * 64 + s[4]>>
        \o DecodeQuads(SubSeq(s, 5, Len(s)))

\* BASE64_STANDARD.decode: the standard alphabet, canonical padding required,
\* non-zero trailing bits refused.
Base64Decode(s) ==
    LET d    == DataLen(s)
        data == SubSeq(s, 1, d)
        pads == Len(s) - d
    IN  IF \E i \in 1..Len(s) : s[i] > PadSym \/ (i > d /\ s[i] # PadSym)
            THEN Err("InvalidByte")
        ELSE IF d % 4 = 1 THEN Err("InvalidLength")
        ELSE IF pads # (4 - (d % 4)) % 4 THEN Err("InvalidPadding")
        ELSE IF (d % 4 = 2 /\ data[d] % 16 # 0) \/ (d % 4 = 3 /\ data[d] % 4 # 0)
            THEN Err("InvalidLastSymbol")
        ELSE Ok(DecodeQuads(data))

\* ----------------------------------------------------- parsed.rs: decode_key

WG_KEY_LEN == 32

\* decode_key without its test of the length.
decode_key_any_length(prop_name, key_str) ==
    LET key == Base64Decode(key_str)
    IN  IF IsErr(key)
            THEN Err(WireguardError("InvalidKey",
                     <<"Invalid", prop_name, "not valid base64 encoded string",
                       key_str, key[2]>>, None))
        ELSE Ok(key[2])

decode_key(prop_name, key_str) ==
    LET key == Base64Decode(key_str)
    IN  IF IsErr(key)
            THEN Err(WireguardError("InvalidKey",
                     <<"Invalid", prop_name, "not valid base64 encoded string",
                       key_str, key[2]>>, None))
        ELSE IF Len(key[2]) # WG_KEY_LEN
            THEN Err(WireguardError("InvalidKey",
                     <<"Invalid", prop_name, "current length", Len(key[2]),
                       "but expecting", WG_KEY_LEN, key_str>>, None))
        ELSE Ok(key[2])

\* --------------------------------------- 64-bit integers as 16-bit limbs

Limb == 2 ^ 16

\* The i64 with the value n (n within the checker's integers).
I64(n) ==
    LET m   == IF n >= 0 THEN n ELSE (-n) - 1
        raw == <<m % Limb, (m \div Limb) % Limb, 0, 0>>
    IN  IF n >= 0 THEN raw ELSE [i \in 1..4 |-> (Limb - 1) - raw[i]]

I64Zero == <<0, 0, 0, 0>>

\* i64::MAX, and 2^63 (a u64 above it).
I64Max == <<Limb - 1, Limb - 1, Limb - 1, (Limb \div 2) - 1>>

U64Above == <<0, 0, 0, Limb \div 2>>

\* u32::MAX as u64.
U32MaxAsU64 == <<Limb - 1, Limb - 1, 0, 0>>

\* x >= 0 for an i64 x.
I64NonNeg(x) == x[4] < Limb \div 2

\* a < b for two u64.
U64Less(a, b) ==
    \E i \in 1..4 : a[i] < b[i] /\ \A j \in (i + 1)..4 : a[j] = b[j]

\* x as u32: the low 32 bits.
AsU32(x) == <<x[1], x[2]>>

\* ---------------------------------------------------- std::time::Duration

NANOS_PER_SEC == 1000000000

\* The limbs of k * NANOS_PER_SEC, k in 0..4.
BillionLo(k) == (k * (NANOS_PER_SEC % Limb)) % Limb

BillionHi(k) ==
    k * (NANOS_PER_SEC \div Limb) + ((k * (NANOS_PER_SEC % Limb)) \div Limb)

\* n >= k * NANOS_PER_SEC for a u32 n.
U32AtLeastBillions(n, k) ==
    n[2] > BillionHi(k) \/ (n[2] = BillionHi(k) /\ n[1] >= BillionLo(k))

\* n / NANOS_PER_SEC and n % NANOS_PER_SEC for a u32 n.
U32DivBillion(n) == Cardinality({k \in 1..4 : U32AtLeastBillions(n, k)})

U32ModBillion(n) ==
    LET q == U32DivBillion(n)
    IN  (n[2] - BillionHi(q)) * Limb + (n[1] - BillionLo(q))

\* u64::checked_add(a, q) for a small q.
U64CheckedAdd(a, q) ==
    LET s1 == a[1] + q
        s2 == a[2] + (s1 \div Limb)
        s3 == a[3] + (s2 \div Limb)
        s4 == a[4] + (s3 \div Limb)
    IN  IF s4 \div Limb > 0 THEN None
        ELSE Some(<<s1 % Limb, s2 % Limb, s3 % Limb, s4 % Limb>>)

\* Duration::new(secs: u64, nanos: u32): nanoseconds of a second or more
\* are carried into the seconds; an overflow of the seconds panics.
DurationNew(secs, nanos) ==
    IF ~U32AtLeastBillions(nanos, 1)
        THEN Ok([secs |-> secs, nanos |-> U32ModBillion(nanos)])
    ELSE LET sum == U64CheckedAdd(secs, U32DivBillion(nanos))
         IN  IF sum = None THEN <<"Panic", "overflow in Duration::new">>
             ELSE Ok([secs |-> Unwrap(sum), nanos |-> U32ModBillion(nanos)])

\* ------------------------------------- peer_parsed.rs: WireguardIpAddress

\* TryFrom<&WireguardAllowedIp>: the last IpAddr and the last Cidr attribute
\* are kept; Family and unknown attributes are passed over.
RECURSIVE AllowedIpFold(_, _)
AllowedIpFold(acc, attrs) ==
    IF Len(attrs) = 0 THEN acc
    ELSE LET attr == Head(attrs)
             nxt  == CASE attr[1] = "IpAddr" ->
                              [acc EXCEPT !.ip_addr = Some(attr[2])]
                       [] attr[1] = "Cidr" ->
                              [acc EXCEPT !.prefix_length = Some(attr[2])]
                       [] OTHER -> acc
         IN  AllowedIpFold(nxt, Tail(attrs))

\* The conversion with a missing prefix length taken as 0.
WireguardIpAddressNoCidrNeeded(attrs) ==
    LET acc == AllowedIpFold([ip_addr |-> None, prefix_length |-> None], attrs)
    IN  IF IsSome(acc.ip_addr)
            THEN Ok([prefix_length |->
                         IF IsSome(acc.prefix_length)
                             THEN Unwrap(acc.prefix_length) ELSE 0,
                     ip_addr |-> Unwrap(acc.ip_addr)])
        ELSE Err(WireguardError("DecodeError",
                 "WireguardAllowedIp does not have WireguardAllowedIpAttr::IpAddr defined",
                 None))

WireguardIpAddressTryFrom(attrs) ==
    LET acc == AllowedIpFold([ip_addr |-> None, prefix_length |-> None], attrs)
    IN  IF IsSome(acc.ip_addr)
            THEN IF IsSome(acc.prefix_length)
                     THEN Ok([prefix_length |-> Unwrap(acc.prefix_length),
                              ip_addr |-> Unwrap(acc.ip_addr)])
                 ELSE Err(WireguardError("DecodeError",
                          "WireguardAllowedIp does not have WireguardAllowedIpAttr::Cidr defined",
                          None))
        ELSE Err(WireguardError("DecodeError",
                 "WireguardAllowedIp does not have WireguardAllowedIpAttr::IpAddr defined",
                 None))

\* From<&WireguardIpAddress> for Vec<WireguardAllowedIpAttr>.  An address is
\* <<"V4", a>> or <<"V6", a>>.
AllowedIpAttrsFrom(ip) ==
    <<<<"Cidr", ip.prefix_length>>,
      IF ip.ip_addr[1] = "V4" THEN <<"Family", "Ipv4">>
                              ELSE <<"Family", "Ipv6">>,
      <<"IpAddr", ip.ip_addr>>>>

\* ------------------------------------ peer_parsed.rs: WireguardPeerParsed

PeerDefault ==
    [endpoint |-> None, public_key |-> None, preshared_key |-> None,
     persistent_keepalive |-> None, last_handshake |-> None,
     rx_bytes |-> None, tx_bytes |-> None, allowed_ips |-> None,
     protocol_version |-> None]

\* The PresharedKey arm without its test for zero bytes.
PresharedKeyArmKeepZero(ret, v) ==
    [ret EXCEPT !.preshared_key = Some(Base64Encode(v))]

\* The PresharedKey arm of From<WireguardPeer>.
PresharedKeyArm(ret, v) ==
    IF \A i \in 1..Len(v) : v[i] = 0
        THEN [ret EXCEPT !.preshared_key = None]
    ELSE [ret EXCEPT !.preshared_key = Some(Base64Encode(v))]

\* The LastHandshake arm of From<WireguardPeer>: what Duration::new is
\* called with, if it is called.
LastHandshakeAccepted(v) ==
    /\ ~(v.seconds = I64Zero /\ v.nano_seconds = I64Zero)
    /\ I64NonNeg(v.seconds)
    /\ I64NonNeg(v.nano_seconds)
    /\ U64Less(v.nano_seconds, U32MaxAsU64)

\* The LastHandshake arm without its test for the zero time.
LastHandshakeArmNoZeroCheck(ret, v) ==
    IF /\ I64NonNeg(v.seconds)
       /\ I64NonNeg(v.nano_seconds)
       /\ U64Less(v.nano_seconds, U32MaxAsU64)
        THEN LET d == DurationNew(v.seconds, AsU32(v.nano_seconds))
             IN  IF IsOk(d) THEN [ret EXCEPT !.last_handshake = Some(d[2])]
                 ELSE ret
    ELSE ret

\* The LastHandshake arm of From<WireguardPeer>.
LastHandshakeArm(ret, v) ==
    IF v.seconds = I64Zero /\ v.nano_seconds = I64Zero
        THEN [ret EXCEPT !.last_handshake = None]
    ELSE IF /\ I64NonNeg(v.seconds)
            /\ I64NonNeg(v.nano_seconds)
            /\ U64Less(v.nano_seconds, U32MaxAsU64)
        THEN LET d == DurationNew(v.seconds, AsU32(v.nano_seconds))
             IN  IF IsOk(d) THEN [ret EXCEPT !.last_handshake = Some(d[2])]
                 ELSE ret
    ELSE ret

\* The AllowedIps arm: the entries that convert, in their order.
RECURSIVE ValidAllowedIps(_)
ValidAllowedIps(wg_ips) ==
    IF Len(wg_ips) = 0 THEN <<>>
    ELSE LET r == WireguardIpAddressTryFrom(Head(wg_ips))
         IN  (IF IsOk(r) THEN <<r[2]>> ELSE <<>>)
             \o ValidAllowedIps(Tail(wg_ips))

PeerFromAttr(ret, attr) ==
    CASE attr[1] = "PublicKey" ->
             [ret EXCEPT !.public_key = Some(Base64Encode(attr[2]))]
      [] attr[1] = "PresharedKey" -> PresharedKeyArm(ret, attr[2])
      [] attr[1] = "Endpoint" -> [ret EXCEPT !.endpoint = Some(attr[2])]
      [] attr[1] = "PersistentKeepalive" ->
             [ret EXCEPT !.persistent_keepalive = Some(attr[2])]
      [] attr[1] = "LastHandshake" -> LastHandshakeArm(ret, attr[2])
      [] attr[1] = "RxBytes" -> [ret EXCEPT !.rx_bytes = Some(attr[2])]
      [] attr[1] = "TxBytes" -> [ret EXCEPT !.tx_bytes = Some(attr[2])]
      [] attr[1] = "ProtocolVersion" ->
             [ret EXCEPT !.protocol_version = Some(attr[2])]
      [] attr[1] = "AllowedIps" ->
             [ret EXCEPT !.allowed_ips = Some(ValidAllowedIps(attr[2]))]
      [] OTHER -> ret

RECURSIVE PeerFold(_, _)
PeerFold(ret, attrs) ==
    IF Len(attrs) = 0 THEN ret
    ELSE PeerFold(PeerFromAttr(ret, Head(attrs)), Tail(attrs))

\* From<WireguardPeer> for WireguardPeerParsed.
WireguardPeerParsedFrom(attrs) == PeerFold(PeerDefault, attrs)

\* Whether From<WireguardPeer> panics: Duration::new is the one call in it
\* that can.
WireguardPeerParsedFromPanics(attrs) ==
    \E i \in 1..Len(attrs) :
        /\ attrs[i][1] = "LastHandshake"
        /\ LastHandshakeAccepted(attrs[i][2])
        /\ ~IsOk(DurationNew(attrs[i][2].seconds,
                             AsU32(attrs[i][2].nano_seconds)))

\* WireguardPeerParsed::build: one attribute per present field, the first
\* key that does not decode ends the build.
WireguardPeerParsedBuild(p) ==
    LET pk  == IF IsSome(p.public_key)
                   THEN decode_key("peer.public_key", Unwrap(p.public_key))
               ELSE Ok(None)
        psk == IF IsSome(p.preshared_key)
                   THEN decode_key("peer.preshared_key",
                                   Unwrap(p.preshared_key))
               ELSE Ok(None)
    IN  IF IsErr(pk) THEN pk
        ELSE IF IsErr(psk) THEN psk
        ELSE Ok(
            (IF IsSome(p.endpoint)
                 THEN <<<<"Endpoint", Unwrap(p.endpoint)>>>> ELSE <<>>)
         \o (IF IsSome(p.public_key) THEN <<<<"PublicKey", pk[2]>>>> ELSE <<>>)
         \o (IF IsSome(p.preshared_key)
                 THEN <<<<"PresharedKey", psk[2]>>>> ELSE <<>>)
         \o (IF IsSome(p.persistent_keepalive)
                 THEN <<<<"PersistentKeepalive",
                          Unwrap(p.persistent_keepalive)>>>> ELSE <<>>)
         \o (IF IsSome(p.last_handshake)
                 THEN <<<<"LastHandshake",
                          [seconds |-> Unwrap(p.last_handshake).secs,
                           nano_seconds |->
                               I64(Unwrap(p.last_handshake).nanos)]>>>>
             ELSE <<>>)
         \o (IF IsSome(p.rx_bytes)
                 THEN <<<<"RxBytes", Unwrap(p.rx_bytes)>>>> ELSE <<>>)
         \o (IF IsSome(p.tx_bytes)
                 THEN <<<<"TxBytes", Unwrap(p.tx_bytes)>>>> ELSE <<>>)
         \o (IF IsSome(p.allowed_ips)
                 THEN <<<<"AllowedIps",
                          [i \in 1..Len(Unwrap(p.allowed_ips)) |->
                              AllowedIpAttrsFrom(Unwrap(p.allowed_ips)[i])]>>>>
             ELSE <<>>)
         \o (IF IsSome(p.protocol_version)
                 THEN <<<<"ProtocolVersion", Unwrap(p.protocol_version)>>>>
             ELSE <<>>))

\* --------------------------------------------- parsed.rs: WireguardParsed

DeviceDefault ==
    [iface_name |-> None, iface_index |-> None, public_key |-> None,
     private_key |-> None, listen_port |-> None, fwmark |-> None,
     peers |-> None]

DeviceFromAttr(ret, attr) ==
    CASE attr[1] = "IfName" -> [ret EXCEPT !.iface_name = Some(attr[2])]
      [] attr[1] = "IfIndex" -> [ret EXCEPT !.iface_index = Some(attr[2])]
      [] attr[1] = "PrivateKey" ->
             [ret EXCEPT !.private_key = Some(Base64Encode(attr[2]))]
      [] attr[1] = "PublicKey" ->
             [ret EXCEPT !.public_key = Some(Base64Encode(attr[2]))]
      [] attr[1] = "ListenPort" -> [ret EXCEPT !.listen_port = Some(attr[2])]
      [] attr[1] = "Fwmark" -> [ret EXCEPT !.fwmark = Some(attr[2])]
      [] attr[1] = "Peers" ->
             [ret EXCEPT !.peers =
                 Some([i \in 1..Len(attr[2]) |->
                          WireguardPeerParsedFrom(attr[2][i])])]
      [] OTHER -> ret

RECURSIVE DeviceFold(_, _)
DeviceFold(ret, attrs) ==
    IF Len(attrs) = 0 THEN ret
    ELSE DeviceFold(DeviceFromAttr(ret, Head(attrs)), Tail(attrs))

\* From<WireguardMessage> for WireguardParsed.
WireguardParsedFrom(msg) == DeviceFold(DeviceDefault, msg.attributes)

\* The peers of a build with the error of the last peer that fails.
RECURSIVE BuildPeersLastError(_)
BuildPeersLastError(peers) ==
    IF Len(peers) = 0 THEN Ok(<<>>)
    ELSE LET first == WireguardPeerParsedBuild(Head(peers))
             rest  == BuildPeersLastError(Tail(peers))
         IN  IF IsErr(rest) THEN rest
             ELSE IF IsErr(first) THEN first
             ELSE Ok(<<first[2]>> \o rest[2])

\* The peers of a build: every peer built in order, the first error ends it.
RECURSIVE BuildPeers(_)
BuildPeers(peers) ==
    IF Len(peers) = 0 THEN Ok(<<>>)
    ELSE LET first == WireguardPeerParsedBuild(Head(peers))
         IN  IF IsErr(first) THEN first
             ELSE LET rest == BuildPeers(Tail(peers))
                  IN  IF IsErr(rest) THEN rest
                      ELSE Ok(<<first[2]>> \o rest[2])

\* WireguardParsed::build.
WireguardParsedBuild(cfg, cmd) ==
    LET pk    == IF IsSome(cfg.public_key)
                     THEN decode_key("public_key", Unwrap(cfg.public_key))
                 ELSE Ok(None)
        sk    == IF IsSome(cfg.private_key)
                     THEN decode_key("private_key", Unwrap(cfg.private_key))
                 ELSE Ok(None)
        peers == IF IsSome(cfg.peers) THEN BuildPeers(Unwrap(cfg.peers))
                 ELSE Ok(None)
    IN  IF IsErr(pk) THEN pk
        ELSE IF IsErr(sk) THEN sk
        ELSE IF IsErr(peers) THEN peers
        ELSE Ok([cmd |-> cmd, attributes |->
            (IF IsSome(cfg.iface_name)
                 THEN <<<<"IfName", Unwrap(cfg.iface_name)>>>> ELSE <<>>)
         \o (IF IsSome(cfg.iface_index)
                 THEN <<<<"IfIndex", Unwrap(cfg.iface_index)>>>> ELSE <<>>)
         \o (IF IsSome(cfg.public_key)
                 THEN <<<<"PublicKey", pk[2]>>>> ELSE <<>>)
         \o (IF IsSome(cfg.private_key)
                 THEN <<<<"PrivateKey", sk[2]>>>> ELSE <<>>)
         \o (IF IsSome(cfg.listen_port)
                 THEN <<<<"ListenPort", Unwrap(cfg.listen_port)>>>> ELSE <<>>)
         \o (IF IsSome(cfg.fwmark)
                 THEN <<<<"Fwmark", Unwrap(cfg.fwmark)>>>> ELSE <<>>)
         \o (IF IsSome(cfg.peers)
                 THEN <<<<"Peers", peers[2]>>>> ELSE <<>>)])

\* ------------------------------------------------------ the Debug renderings

\* The text "(hidden)": its letters are alphabet symbols, its brackets are not.
Hidden == <<PadSym + 2, 33, 34, 29, 29, 30, 39, PadSym + 3>>

\* The derived Debug of an Option: None, or Some(..) around the value's own.
DebugOption(o) == IF IsSome(o) THEN <<"Some", Unwrap(o)>> ELSE <<"None">>

\* The shadow struct given the pre-shared key itself.
PeerShadowSecretLeaks(preshared_key) == preshared_key

\* The preshared_key the shadow struct _WireguardPeerParsed is given.
PeerShadowSecret(preshared_key) ==
    IF IsSome(preshared_key) THEN Some(Hidden) ELSE None

\* impl Debug for WireguardPeerParsed.
DebugPeer(p) ==
    <<"_WireguardPeerParsed",
      <<"endpoint", DebugOption(p.endpoint)>>,
      <<"public_key", DebugOption(p.public_key)>>,
      <<"preshared_key", DebugOption(PeerShadowSecret(p.preshared_key))>>,
      <<"persistent_keepalive", DebugOption(p.persistent_keepalive)>>,
      <<"last_handshake", DebugOption(p.last_handshake)>>,
      <<"rx_bytes", DebugOption(p.rx_bytes)>>,
      <<"tx_bytes", DebugOption(p.tx_bytes)>>,
      <<"allowed_ips", DebugOption(p.allowed_ips)>>,
      <<"protocol_version", DebugOption(p.protocol_version)>> >>

\* The private_key the shadow struct _WireguardParsed is given.
DeviceShadowSecret(private_key) ==
    IF IsSome(private_key) THEN Some(Hidden) ELSE None

\* The derived Debug of Option<Vec<WireguardPeerParsed>>: each peer by its
\* own Debug.
DebugPeers(peers) ==
    IF IsSome(peers)
        THEN <<"Some", [i \in 1..Len(Unwrap(peers)) |->
                           DebugPeer(Unwrap(peers)[i])]>>
    ELSE <<"None">>

\* impl Debug for WireguardParsed.
DebugDevice(cfg) ==
    <<"_WireguardParsed",
      <<"iface_name", DebugOption(cfg.iface_name)>>,
      <<"iface_index", DebugOption(cfg.iface_index)>>,
      <<"public_key", DebugOption(cfg.public_key)>>,
      <<"private_key", DebugOption(DeviceShadowSecret(cfg.private_key))>>,
      <<"listen_port", DebugOption(cfg.listen_port)>>,
      <<"fwmark", DebugOption(cfg.fwmark)>>,
      <<"peers", DebugPeers(cfg.peers)>> >>

\* ------------------------------------------------------------- handle.rs

NLM_F_REQUEST == 1

NLM_F_ACK == 4

NLM_F_DUMP == 768

\* a | b on unsigned integers.
RECURSIVE BitOr(_, _)
BitOr(a, b) ==
    IF a = 0 THEN b
    ELSE IF b = 0 THEN a
    ELSE (IF a % 2 = 1 \/ b % 2 = 1 THEN 1 ELSE 0)
         + 2 * BitOr(a \div 2, b \div 2)

\* NetlinkMessage::from(GenlMessage::from_payload(message)): default headers
\* around the message.
NetlinkMessageFrom(message) ==
    [header  |-> [flags |-> 0],
     payload |-> <<"InnerMessage", [header |-> "genl", payload |-> message]>>]

\* The envelope left with the flags NetlinkMessage::from gives it.
RequestEnvelopeDefaultFlags(nl_header_flags, message) ==
    NetlinkMessageFrom(message)

\* The envelope `request` submits: the caller's flags stamped on it.
RequestEnvelope(nl_header_flags, message) ==
    [NetlinkMessageFrom(message) EXCEPT !.header.flags = nl_header_flags]

\* A DecodeError given no context.
DecodeErrorContextNone(nl_msg, reply) == None

\* The context a DecodeError is given.
DecodeErrorContext(nl_msg, reply) == Some(nl_msg)

\* The closure of parse_nl_msg_stream: one transport item to one outcome.
ParseNlMsg(nl_msg, reply) ==
    IF IsOk(reply)
        THEN LET header  == reply[2].header
                 payload == reply[2].payload
             IN  CASE payload[1] = "InnerMessage" -> Ok(payload[2].payload)
                   [] payload[1] = "Error" ->
                          Err(WireguardError("NetlinkError",
                              <<"netlink error", payload[2]>>,
                              Some([header |-> header, payload |-> payload])))
                   [] OTHER ->
                          Err(WireguardError("Bug",
                              <<"Unexpected NetlinkPayload type", payload>>,
                              Some([header |-> header, payload |-> payload])))
    ELSE Err(WireguardError("DecodeError",
             <<"netlink decode error", reply[2]>>,
             DecodeErrorContext(nl_msg, reply)))

\* get_by_name reporting the error of the first item as one of kind Bug.
GetByNameFinalizeDropError(msg, next) ==
    IF next = None
        THEN Err(WireguardError("Bug", "Got no reply from kernel for request",
                                Some(NetlinkMessageFrom(msg))))
    ELSE IF IsOk(Unwrap(next)) THEN Ok(WireguardParsedFrom(Unwrap(next)[2]))
    ELSE Err([Unwrap(next)[2] EXCEPT !.kind = "Bug"])

\* What get_by_name returns for the outcome of stream.next(): None, or
\* Some(item).
GetByNameFinalize(msg, next) ==
    IF next = None
        THEN Err(WireguardError("Bug", "Got no reply from kernel for request",
                                Some(NetlinkMessageFrom(msg))))
    ELSE IF IsOk(Unwrap(next)) THEN Ok(WireguardParsedFrom(Unwrap(next)[2]))
    ELSE Unwrap(next)

\* set with an empty reply sequence taken as an error.
SetFinalizeRequireAck(next) ==
    IF next = None
        THEN Err(WireguardError("Bug", "Got no reply from kernel for request",
                                None))
    ELSE IF IsOk(Unwrap(next)) THEN Ok(<<>>)
    ELSE Unwrap(next)

\* What set returns for the outcome of stream.next().
SetFinalize(next) ==
    IF next = None \/ IsOk(Unwrap(next)) THEN Ok(<<>>) ELSE Unwrap(next)

\* ------------------------------------------------------ bounds and inputs

\* The longest reply sequence the transport delivers in one exchange.
MaxReplies == 3

\* The most peers of a device, attributes of a wire peer, entries of an
\* allowed-IP list.
MaxPeers == 2

MaxPeerAttrs == 2

MaxAllowedIps == 2

\* Keys on the wire: all zero, and two that are not.
ZeroKey == [i \in 1..WG_KEY_LEN |-> 0]

KeyA == [i \in 1..WG_KEY_LEN |-> (i * 37) % 256]

KeyB == [i \in 1..WG_KEY_LEN |-> 255]

\* Byte strings that are no key: too short, too long, empty.
ShortBytes == [i \in 1..(WG_KEY_LEN - 1) |-> i]

LongBytes == [i \in 1..(WG_KEY_LEN + 1) |-> i]

WireKeys == {ZeroKey, KeyA, KeyB}

\* Texts that are not validly encoded: a character outside the alphabet, the
\* padding missing, padding added, non-zero trailing bits, padding inside.
BadTexts ==
    LET t == Base64Encode(KeyA)
    IN  {[t EXCEPT ![5] = BadSym],
         SubSeq(t, 1, Len(t) - 1),
         t \o <<PadSym>>,
         [t EXCEPT ![Len(t) - 1] = t[Len(t) - 1] + 1],
         [t EXCEPT ![7] = PadSym],
         Hidden}

\* Texts that are validly encoded, of another length than a key's.
WrongLengthTexts ==
    {Base64Encode(ShortBytes), Base64Encode(LongBytes), Base64Encode(<<>>)}

KeyTexts ==
    {Base64Encode(k) : k \in WireKeys} \cup BadTexts \cup WrongLengthTexts

PropNames ==
    {"public_key", "private_key", "peer.public_key", "peer.preshared_key"}

IpV4 == <<"V4", "10.10.10.0">>

IpV6 == <<"V6", "::">>

\* Reply messages of the kernel.
ReplyMessages ==
    {[cmd |-> "GetDevice",
      attributes |-> <<<<"IfName", "wg0">>, <<"ListenPort", 51820>>>>],
     [cmd |-> "GetDevice",
      attributes |-> <<<<"IfIndex", 7>>, <<"Flags", 0>>,
                       <<"Peers", <<<<<<"PublicKey", KeyA>>,
                                      <<"PresharedKey", ZeroKey>>>>>>>>>>]}

\* What the transport's reply sequence may deliver: decoded envelopes with
\* each payload shape, and a decode failure.
RawReplies ==
    {Ok([header |-> [flags |-> 2],
         payload |-> <<"InnerMessage", [header |-> "genl", payload |-> m]>>]) :
        m \in ReplyMessages}
    \cup {Ok([header |-> [flags |-> 0], payload |-> pl]) :
             pl \in {<<"Error", -19>>, <<"Done">>, <<"Noop">>, <<"Overrun">>}}
    \cup {Err("truncated")}

\* Configurations handed to set: a plain one, one with a peer, one whose
\* private key is no key.
SetConfigs ==
    {[DeviceDefault EXCEPT !.iface_name = Some("wg0"),
                           !.listen_port = Some(51820)],
     [DeviceDefault EXCEPT !.iface_name = Some("wg0"),
                           !.private_key = Some(Base64Encode(KeyA)),
                           !.peers = Some(<<[PeerDefault EXCEPT
                               !.public_key = Some(Base64Encode(KeyB)),
                               !.endpoint = Some(<<IpV4, 51820>>)]>>)],
     [DeviceDefault EXCEPT !.iface_name = Some("wg0"),
                           !.private_key = Some(Base64Encode(ShortBytes))]}

IfaceNames == {"wg0", "wg1"}

\* Flags and messages handed to request.
RequestFlags == {0, NLM_F_REQUEST, BitOr(NLM_F_REQUEST, NLM_F_DUMP)}

RequestMessages ==
    {[cmd |-> "GetDevice", attributes |-> <<<<"IfName", "wg0">>>>],
     [cmd |-> "SetDevice", attributes |-> <<<<"IfName", "wg0">>,
                                            <<"Fwmark", 0>>>>]}

\* --------------------------------------------------------------- the state

VARIABLES
    pc,          \* where the call is: idle, submit, stream, done, dropped
    op,          \* the operation called: none, get_by_name, set, request
    msg,         \* Option: the message the operation built
    nl_msg,      \* Option: the envelope handed to the transport
    wire,        \* what the transport's reply sequence delivers
    pulled,      \* how many items have been pulled from the transport
    yielded,     \* what the classified stream has yielded to the caller
    result,      \* Option: what the call returned
    submissions, \* how many times the call submitted to the transport
    arg,         \* the arguments of the call
    stream_open, \* whether the transport returned a reply sequence
    t_op,        \* the translator operation applied: none, or its name
    t_in,        \* its input
    t_out        \* its output

vars == <<pc, op, msg, nl_msg, wire, pulled, yielded, result, submissions,
          arg, stream_open, t_op, t_in, t_out>>

handle_vars == <<pc, op, msg, nl_msg, wire, pulled, yielded, result,
                 submissions, arg, stream_open>>

translator_vars == <<t_op, t_in, t_out>>

Init ==
    /\ pc = "idle"
    /\ op = "none"
    /\ msg = None
    /\ nl_msg = None
    /\ wire = <<>>
    /\ pulled = 0
    /\ yielded = <<>>
    /\ result = None
    /\ submissions = 0
    /\ arg = <<>>
    /\ stream_open = FALSE
    /\ t_op = "none"
    /\ t_in = <<>>
    /\ t_out = <<>>

\* ------------------------------------------------- WireguardHandle's calls

\* get_by_name up to the submission: the message is built, the envelope made.
GetByName(iface_name) ==
    /\ pc = "idle"
    /\ LET built == WireguardParsedBuild(
                        [DeviceDefault EXCEPT !.iface_name = Some(iface_name)],
                        "GetDevice")
       IN  IF IsErr(built)
               THEN /\ pc' = "done"
                    /\ result' = Some(built)
                    /\ UNCHANGED <<msg, nl_msg>>
           ELSE /\ pc' = "submit"
                /\ msg' = Some(built[2])
                /\ nl_msg' = Some(RequestEnvelope(
                       BitOr(BitOr(NLM_F_REQUEST, NLM_F_ACK), NLM_F_DUMP),
                       built[2]))
                /\ UNCHANGED result
    /\ op' = "get_by_name"
    /\ arg' = <<iface_name>>
    /\ UNCHANGED <<wire, pulled, yielded, submissions, stream_open,
                   translator_vars>>

\* set up to the submission.
Set(parsed) ==
    /\ pc = "idle"
    /\ LET built == WireguardParsedBuild(parsed, "SetDevice")
       IN  IF IsErr(built)
               THEN /\ pc' = "done"
                    /\ result' = Some(built)
                    /\ UNCHANGED <<msg, nl_msg>>
           ELSE /\ pc' = "submit"
                /\ msg' = Some(built[2])
                /\ nl_msg' = Some(RequestEnvelope(
                       BitOr(NLM_F_REQUEST, NLM_F_ACK), built[2]))
                /\ UNCHANGED result
    /\ op' = "set"
    /\ arg' = <<parsed>>
    /\ UNCHANGED <<wire, pulled, yielded, submissions, stream_open,
                   translator_vars>>

\* request called by the caller itself, up to the submission.
Request(nl_header_flags, message) ==
    /\ pc = "idle"
    /\ pc' = "submit"
    /\ op' = "request"
    /\ msg' = Some(message)
    /\ nl_msg' = Some(RequestEnvelope(nl_header_flags, message))
    /\ arg' = <<nl_header_flags, message>>
    /\ UNCHANGED <<wire, pulled, yielded, result, submissions, stream_open,
                   translator_vars>>

\* self.handle.request(..) returns Ok(stream): the transport took the
\* envelope; w is what its reply sequence will deliver.
SubmitOk(w) ==
    /\ pc = "submit"
    /\ pc' = "stream"
    /\ submissions' = submissions + 1
    /\ wire' = w
    /\ stream_open' = TRUE
    /\ result' = IF op = "request" THEN Some(Ok("stream")) ELSE result
    /\ UNCHANGED <<op, msg, nl_msg, pulled, yielded, arg, translator_vars>>

\* A submission that is made once more after it failed.
SubmitErrRetry(e) ==
    /\ pc = "submit"
    /\ submissions' = submissions + 1
    /\ IF submissions = 0
           THEN UNCHANGED <<pc, result>>
       ELSE /\ pc' = "done"
            /\ result' = Some(Err(WireguardError("NetlinkError",
                                  <<"Netlink request failed", e>>, nl_msg)))
    /\ UNCHANGED <<op, msg, nl_msg, wire, pulled, yielded, arg, stream_open,
                   translator_vars>>

\* self.handle.request(..) returns Err(e).
SubmitErr(e) ==
    /\ pc = "submit"
    /\ pc' = "done"
    /\ submissions' = submissions + 1
    /\ result' = Some(Err(WireguardError("NetlinkError",
                          <<"Netlink request failed", e>>, nl_msg)))
    /\ UNCHANGED <<op, msg, nl_msg, wire, pulled, yielded, arg, stream_open,
                   translator_vars>>

\* A stream that ends at the first item that is not a device message.
StreamNextEndsAtError ==
    IF pulled < Len(wire) /\ IsOk(ParseNlMsg(Unwrap(nl_msg), wire[pulled + 1]))
        THEN Some(ParseNlMsg(Unwrap(nl_msg), wire[pulled + 1]))
    ELSE None

\* stream.next(): the next item of the transport classified, or None at its
\* end.
StreamNext ==
    IF pulled < Len(wire)
        THEN Some(ParseNlMsg(Unwrap(nl_msg), wire[pulled + 1]))
    ELSE None

\* get_by_name from its one .next() to its return.
GetByNameNext ==
    /\ pc = "stream"
    /\ op = "get_by_name"
    /\ pulled' = IF pulled < Len(wire) THEN pulled + 1 ELSE pulled
    /\ result' = Some(GetByNameFinalize(Unwrap(msg), StreamNext))
    /\ pc' = "done"
    /\ UNCHANGED <<op, msg, nl_msg, wire, yielded, submissions, arg,
                   stream_open, translator_vars>>

\* set from its one .next() to its return.
SetNext ==
    /\ pc = "stream"
    /\ op = "set"
    /\ pulled' = IF pulled < Len(wire) THEN pulled + 1 ELSE pulled
    /\ result' = Some(SetFinalize(StreamNext))
    /\ pc' = "done"
    /\ UNCHANGED <<op, msg, nl_msg, wire, yielded, submissions, arg,
                   stream_open, translator_vars>>

\* The caller of request polls the stream it was given.
RequestNext ==
    /\ pc = "stream"
    /\ op = "request"
    /\ IF StreamNext = None
           THEN /\ pc' = "done"
                /\ UNCHANGED <<pulled, yielded>>
       ELSE /\ pulled' = pulled + 1
            /\ yielded' = Append(yielded, Unwrap(StreamNext))
            /\ UNCHANGED pc
    /\ UNCHANGED <<op, msg, nl_msg, wire, result, submissions, arg,
                   stream_open, translator_vars>>

\* The caller of request drops the stream before it has reported its end.
RequestDrop ==
    /\ pc = "stream"
    /\ op = "request"
    /\ pc' = "dropped"
    /\ UNCHANGED <<op, msg, nl_msg, wire, pulled, yielded, result,
                   submissions, arg, stream_open, translator_vars>>

\* The call is over; the handle is free for the next one.
Return ==
    /\ pc \in {"done", "dropped"}
    /\ pc' = "idle"
    /\ op' = "none"
    /\ msg' = None
    /\ nl_msg' = None
    /\ wire' = <<>>
    /\ pulled' = 0
    /\ yielded' = <<>>
    /\ result' = None
    /\ submissions' = 0
    /\ arg' = <<>>
    /\ stream_open' = FALSE
    /\ UNCHANGED translator_vars

\* (SubmitOk's guard is repeated before the quantifier, so that the reply
\* sequences are enumerated only where a submission is pending.)
Next ==
    \/ \E n \in IfaceNames : GetByName(n)
    \/ \E c \in SetConfigs : Set(c)
    \/ \E f \in RequestFlags, m \in RequestMessages : Request(f, m)
    \/ pc = "submit" /\ \E w \in SeqUpTo(RawReplies, MaxReplies) : SubmitOk(w)
    \/ \E e \in {"closed"} : SubmitErr(e)
    \/ GetByNameNext
    \/ SetNext
    \/ RequestNext
    \/ RequestDrop
    \/ Return

Spec == Init /\ [][Next]_vars

\* ------------------------------------------- the inputs of the translators

\* Time specs on the wire: the seconds and nanoseconds around every bound
\* the LastHandshake arm tests.
HandshakeSeconds == {I64Zero, I64(5), I64(-1), I64Max}

HandshakeNanos ==
    {I64Zero, I64(1), I64(NANOS_PER_SEC - 1), I64(NANOS_PER_SEC),
     <<Limb - 2, Limb - 1, 0, 0>>, U32MaxAsU64, <<0, 0, 1, 0>>, I64(-1)}

TimeSpecs ==
    [seconds : HandshakeSeconds, nano_seconds : HandshakeNanos]

\* Allowed-IP entries on the wire: complete, complete without the family,
\* without the address, without the prefix length, with neither.
AllowedIpEntries ==
    {<<<<"Cidr", 24>>, <<"Family", "Ipv4">>, <<"IpAddr", IpV4>>>>,
     <<<<"IpAddr", IpV6>>, <<"Cidr", 0>>>>,
     <<<<"Cidr", 24>>, <<"Family", "Ipv4">>>>,
     <<<<"Family", "Ipv4">>, <<"IpAddr", IpV4>>>>,
     <<<<"Flags", 0>>>>}

AllowedIpLists == SeqUpTo(AllowedIpEntries, MaxAllowedIps)

\* Peer attributes that are combined with each other.
PeerAttrPool ==
    {<<"PublicKey", KeyA>>,
     <<"PresharedKey", ZeroKey>>,
     <<"PresharedKey", KeyA>>,
     <<"PresharedKey", KeyB>>,
     <<"Endpoint", <<IpV4, 51820>>>>,
     <<"PersistentKeepalive", 25>>,
     <<"LastHandshake", [seconds |-> I64(5), nano_seconds |-> I64(1)]>>,
     <<"LastHandshake", [seconds |-> I64Zero, nano_seconds |-> I64Zero]>>,
     <<"LastHandshake", [seconds |-> I64(-1), nano_seconds |-> I64Zero]>>,
     <<"RxBytes", 1>>,
     <<"TxBytes", 2>>,
     <<"ProtocolVersion", 1>>,
     <<"AllowedIps", <<>>>>,
     <<"Flags", 0>>}

\* Wire peers: combinations of the pool, and every time spec and every
\* allowed-IP list as a peer's one attribute or after another attribute.
WirePeers ==
    SeqUpTo(PeerAttrPool, MaxPeerAttrs)
    \cup {<<<<"LastHandshake", ts>>>> : ts \in TimeSpecs}
    \cup {<<<<"AllowedIps", l>>>> : l \in AllowedIpLists}
    \cup {<<<<"PublicKey", KeyB>>, <<"AllowedIps", l>>>> : l \in AllowedIpLists}

\* A Duration of secs whole seconds and nanos nanoseconds.
Duration(secs, nanos) == [secs |-> secs, nanos |-> nanos]

Ip4Net == [prefix_length |-> 24, ip_addr |-> IpV4]

Ip6Any == [prefix_length |-> 0, ip_addr |-> IpV6]

\* Peer configurations: every field absent or present, the keys valid or
\* not, the handshake time zero, small, at i64::MAX seconds, and above it.
PeerConfigs ==
    [endpoint : {None, Some(<<IpV4, 51820>>)},
     public_key : {None, Some(Base64Encode(KeyA)),
                   Some(Base64Encode(ShortBytes))},
     preshared_key : {None, Some(Base64Encode(KeyB)),
                      Some(Base64Encode(ZeroKey)),
                      Some([Base64Encode(KeyA) EXCEPT ![5] = BadSym])},
     persistent_keepalive : {None, Some(25)},
     last_handshake : {None, Some(Duration(I64Zero, 0)),
                       Some(Duration(I64(5), 1)),
                       Some(Duration(I64Max, NANOS_PER_SEC - 1)),
                       Some(Duration(U64Above, 0))},
     rx_bytes : {None, Some(1)},
     tx_bytes : {None, Some(2)},
     allowed_ips : {None, Some(<<>>), Some(<<Ip4Net>>),
                    Some(<<Ip4Net, Ip6Any>>)},
     protocol_version : {None, Some(1)}]

\* The peers that device configurations are made of.
PeerPool ==
    {PeerDefault,
     [PeerDefault EXCEPT !.endpoint = Some(<<IpV4, 51820>>),
                         !.public_key = Some(Base64Encode(KeyA)),
                         !.preshared_key = Some(Base64Encode(KeyB)),
                         !.persistent_keepalive = Some(25),
                         !.last_handshake = Some(Duration(I64(5), 1)),
                         !.rx_bytes = Some(1),
                         !.tx_bytes = Some(2),
                         !.allowed_ips = Some(<<Ip4Net, Ip6Any>>),
                         !.protocol_version = Some(1)],
     [PeerDefault EXCEPT !.public_key = Some(Base64Encode(KeyB)),
                         !.preshared_key = Some(Base64Encode(ZeroKey))],
     [PeerDefault EXCEPT !.public_key = Some(Base64Encode(KeyA)),
                         !.last_handshake = Some(Duration(I64Zero, 0))],
     [PeerDefault EXCEPT !.public_key = Some(Base64Encode(LongBytes)),
                         !.allowed_ips = Some(<<Ip4Net>>)],
     [PeerDefault EXCEPT !.public_key = Some(Base64Encode(KeyA)),
                         !.preshared_key = Some(Hidden)]}

DeviceConfigs ==
    [iface_name : {None, Some("wg0")},
     iface_index : {None, Some(7)},
     public_key : {None, Some(Base64Encode(KeyA)),
                   Some([Base64Encode(KeyA) EXCEPT ![5] = BadSym])},
     private_key : {None, Some(Base64Encode(KeyB)),
                    Some(Base64Encode(ShortBytes))},
     listen_port : {None, Some(51820)},
     fwmark : {None, Some(0)},
     peers : {None} \cup {Some(l) : l \in SeqUpTo(PeerPool, MaxPeers)}]

\* Another value for a present secret.
OtherSecrets == {Base64Encode(KeyA), Base64Encode(ZeroKey)}

\* The peer p with its pre-shared key, when present, replaced by k.
PeerWithSecret(p, k) ==
    IF IsSome(p.preshared_key) THEN [p EXCEPT !.preshared_key = Some(k)]
    ELSE p

\* The device cfg with its private key and its peers' pre-shared keys, when
\* present, replaced by k.
DeviceWithSecret(cfg, k) ==
    [cfg EXCEPT
        !.private_key = IF IsSome(cfg.private_key) THEN Some(k) ELSE None,
        !.peers = IF IsSome(cfg.peers)
                      THEN Some([i \in 1..Len(Unwrap(cfg.peers)) |->
                                    PeerWithSecret(Unwrap(cfg.peers)[i], k)])
                  ELSE None]

\* ------------------------------------------ the translators, one call each

\* decode_key(prop_name, key_str).
DecodeKey(prop_name, key_str) ==
    /\ t_op = "none"
    /\ t_op' = "decode_key"
    /\ t_in' = <<prop_name, key_str>>
    /\ t_out' = decode_key(prop_name, key_str)
    /\ UNCHANGED handle_vars

\* A key of the wire encoded as the From impls encode it, and decoded again.
KeyRoundTrip(prop_name, key) ==
    /\ t_op = "none"
    /\ t_op' = "key_round_trip"
    /\ t_in' = <<prop_name, key>>
    /\ t_out' = decode_key(prop_name, Base64Encode(key))
    /\ UNCHANGED handle_vars

\* WireguardPeerParsed::from(attrs).
PeerFromWire(attrs) ==
    /\ t_op = "none"
    /\ t_op' = "peer_from"
    /\ t_in' = attrs
    /\ t_out' = [panicked |-> WireguardPeerParsedFromPanics(attrs),
                 peer |-> WireguardPeerParsedFrom(attrs)]
    /\ UNCHANGED handle_vars

\* peer.build(), and WireguardPeerParsed::from of what it built.
PeerRoundTrip(p) ==
    /\ t_op = "none"
    /\ t_op' = "peer_round_trip"
    /\ t_in' = p
    /\ LET built == WireguardPeerParsedBuild(p)
       IN  t_out' = [built |-> built,
                     back  |-> IF IsOk(built)
                                   THEN Some(WireguardPeerParsedFrom(built[2]))
                               ELSE None]
    /\ UNCHANGED handle_vars

\* cfg.build(SetDevice), and WireguardParsed::from of what it built.
DeviceRoundTrip(cfg) ==
    /\ t_op = "none"
    /\ t_op' = "device_round_trip"
    /\ t_in' = cfg
    /\ LET built == WireguardParsedBuild(cfg, "SetDevice")
       IN  t_out' = [built |-> built,
                     back  |-> IF IsOk(built)
                                   THEN Some(WireguardParsedFrom(built[2]))
                               ELSE None]
    /\ UNCHANGED handle_vars

\* format!("{:?}") of a peer and of the peer with another secret.
DebugPeerPair(p, k) ==
    /\ t_op = "none"
    /\ t_op' = "debug_peer"
    /\ t_in' = <<p, PeerWithSecret(p, k)>>
    /\ t_out' = <<DebugPeer(p), DebugPeer(PeerWithSecret(p, k))>>
    /\ UNCHANGED handle_vars

\* format!("{:?}") of a device and of the device with other secrets.
DebugDevicePair(cfg, k) ==
    /\ t_op = "none"
    /\ t_op' = "debug_device"
    /\ t_in' = <<cfg, DeviceWithSecret(cfg, k)>>
    /\ t_out' = <<DebugDevice(cfg), DebugDevice(DeviceWithSecret(cfg, k))>>
    /\ UNCHANGED handle_vars

\* The value was taken; the next call may be made.
TranslatorReturn ==
    /\ t_op # "none"
    /\ t_op' = "none"
    /\ t_in' = <<>>
    /\ t_out' = <<>>
    /\ UNCHANGED handle_vars

\* (The guards of the actions are repeated before the quantifiers, so that
\* the inputs are enumerated only where an action can be taken.)
NextTranslate ==
    \/ t_op = "none" /\ \E n \in PropNames, t \in KeyTexts : DecodeKey(n, t)
    \/ t_op = "none" /\ \E n \in PropNames, k \in WireKeys : KeyRoundTrip(n, k)
    \/ t_op = "none" /\ \E a \in WirePeers : PeerFromWire(a)
    \/ t_op = "none" /\ \E p \in PeerConfigs : PeerRoundTrip(p)
    \/ t_op = "none" /\ \E c \in DeviceConfigs : DeviceRoundTrip(c)
    \/ t_op = "none" /\ \E p \in PeerConfigs, k \in OtherSecrets :
                            DebugPeerPair(p, k)
    \/ t_op = "none" /\ \E c \in DeviceConfigs, k \in OtherSecrets :
                            DebugDevicePair(c, k)
    \/ TranslatorReturn

SpecTranslate == Init /\ [][NextTranslate]_vars

\* ------------------------------------------- the claims on WireguardHandle

\* A transport item that classifies as success: a decoded envelope with an
\* embedded device message.
IsSuccessItem(raw) == IsOk(raw) /\ raw[2].payload[1] = "InnerMessage"

\* The classification of the transport's i-th item.
Classified(i) == ParseNlMsg(Unwrap(nl_msg), wire[i])

\* The call has returned after a successful build and submission.
ReturnedFromStream(o) == pc = "done" /\ op = o /\ stream_open

\* The flags the operations stamp on the envelope they submit.
ExpectedFlags ==
    CASE op = "get_by_name" -> 773
      [] op = "set" -> 5
      [] OTHER -> arg[1]

\* C1: a set call whose build and submission succeeded returns the first
\* error of the reply sequence in delivery order, wherever in the sequence
\* that error is.
C1_SetReturnsFirstErrorAnywhere ==
    (ReturnedFromStream("set") /\ \E i \in 1..Len(wire) : ~IsSuccessItem(wire[i]))
    => LET first == CHOOSE i \in 1..Len(wire) :
                        /\ ~IsSuccessItem(wire[i])
                        /\ \A j \in 1..(i - 1) : IsSuccessItem(wire[j])
       IN  result = Some(Classified(first))

\* C2: get_by_name is decided by the first item of the reply sequence only:
\* none gives an error of kind Bug, an error gives that very error, a device
\* message gives the DeviceConfig translated from it, whatever follows.
C2_GetByNameFirstItemDecides ==
    ReturnedFromStream("get_by_name")
    => IF Len(wire) = 0
           THEN /\ IsErr(Unwrap(result))
                /\ Unwrap(result)[2].kind = "Bug"
       ELSE IF IsSuccessItem(wire[1])
           THEN result =
                    Some(Ok(WireguardParsedFrom(wire[1][2].payload[2].payload)))
       ELSE result = Some(Classified(1))

\* C2's case: a device message first, an error after it, and the device
\* returned.
C2_Witness ==
    /\ ReturnedFromStream("get_by_name")
    /\ Len(wire) >= 2
    /\ IsSuccessItem(wire[1])
    /\ ~IsSuccessItem(wire[2])
    /\ IsOk(Unwrap(result))
    /\ IsSome(Unwrap(result)[2].peers)

\* The outcome out is the one the transport item raw must be given.
C3_Outcome(raw, out) ==
    IF IsOk(raw)
        THEN CASE raw[2].payload[1] = "InnerMessage" ->
                      out = Ok(raw[2].payload[2].payload)
               [] raw[2].payload[1] = "Error" ->
                      /\ IsErr(out)
                      /\ out[2].kind = "NetlinkError"
                      /\ out[2].netlink_msg = Some(raw[2])
               [] OTHER ->
                      /\ raw[2].payload[1] \in {"Done", "Noop", "Overrun"}
                      /\ IsErr(out)
                      /\ out[2].kind = "Bug"
                      /\ out[2].netlink_msg = Some(raw[2])
    ELSE /\ IsErr(out)
         /\ out[2].kind = "DecodeError"
         /\ out[2].netlink_msg =
                Some([header  |-> [flags |-> ExpectedFlags],
                      payload |-> <<"InnerMessage",
                                    [header |-> "genl",
                                     payload |-> Unwrap(msg)]>>])

\* C3: every item of the transport's reply sequence is classified into one
\* outcome: a device message into success with the inner message, a protocol
\* error into NetlinkError with the reply envelope, any other payload into
\* Bug with the reply envelope, a decode failure into DecodeError with the
\* envelope that was submitted, the caller's flags on it.
C3_EveryItemClassified ==
    /\ op = "request"
       => \A i \in 1..Len(yielded) : C3_Outcome(wire[i], yielded[i])
    /\ (pulled = 1 /\ ~IsSuccessItem(wire[1])
        /\ (ReturnedFromStream("get_by_name") \/ ReturnedFromStream("set")))
       => (IsSome(result) /\ C3_Outcome(wire[1], Unwrap(result)))

\* C3's case: two items yielded, a decode failure and an unexpected payload
\* among them.
C3_Witness ==
    /\ op = "request"
    /\ Len(yielded) >= 2
    /\ \E i \in 1..Len(yielded) : yielded[i][1] = "Err"
                                 /\ yielded[i][2].kind = "DecodeError"
    /\ \E i \in 1..Len(yielded) : yielded[i][1] = "Err"
                                 /\ yielded[i][2].kind = "Bug"

\* C10: a set call whose build and submission succeeded returns success when
\* the reply sequence is empty or holds only successes.
C10_SetSilenceOrSuccessIsOk ==
    (ReturnedFromStream("set") /\ \A i \in 1..Len(wire) : IsSuccessItem(wire[i]))
    => result = Some(Ok(<<>>))

\* C10's case: set returned success on two successes.
C10_Witness ==
    /\ ReturnedFromStream("set")
    /\ Len(wire) >= 2
    /\ \A i \in 1..Len(wire) : IsSuccessItem(wire[i])
    /\ result = Some(Ok(<<>>))

\* ------------------------------------------- the claims on the translators

\* The texts that encode a key.
ValidKeyTexts == {Base64Encode(k) : k \in WireKeys}

InvalidKeyTexts == BadTexts \cup WrongLengthTexts

PeerKeysValid(p) ==
    /\ IsSome(p.public_key) => Unwrap(p.public_key) \in ValidKeyTexts
    /\ IsSome(p.preshared_key) => Unwrap(p.preshared_key) \in ValidKeyTexts

DeviceKeysValid(cfg) ==
    /\ IsSome(cfg.public_key) => Unwrap(cfg.public_key) \in ValidKeyTexts
    /\ IsSome(cfg.private_key) => Unwrap(cfg.private_key) \in ValidKeyTexts
    /\ IsSome(cfg.peers)
       => \A i \in 1..Len(Unwrap(cfg.peers)) : PeerKeysValid(Unwrap(cfg.peers)[i])

\* The result r is an error of kind InvalidKey.
IsInvalidKey(r) == IsErr(r) /\ r[2].kind = "InvalidKey"

\* The peer a round trip gives back for p: p itself, but for a pre-shared
\* key of zero bytes, a last handshake of zero duration and a last handshake
\* of more than i64::MAX seconds, which come back absent.
C4_PeerBack(p) ==
    [p EXCEPT
        !.preshared_key =
            IF p.preshared_key = Some(Base64Encode(ZeroKey)) THEN None ELSE @,
        !.last_handshake =
            IF /\ IsSome(p.last_handshake)
               /\ \/ Unwrap(p.last_handshake) = Duration(I64Zero, 0)
                  \/ ~I64NonNeg(Unwrap(p.last_handshake).secs)
                THEN None
            ELSE @]

C4_DeviceBack(cfg) ==
    [cfg EXCEPT
        !.peers = IF IsSome(cfg.peers)
                      THEN Some([i \in 1..Len(Unwrap(cfg.peers)) |->
                                    C4_PeerBack(Unwrap(cfg.peers)[i])])
                  ELSE None]

\* C4 as stated: for every configuration with valid keys,
\* from_wire(to_wire(cfg, SetDevice)) has every present field present with
\* the same value and every absent field absent.
C4_RoundTripReproducesEveryField ==
    (t_op = "device_round_trip" /\ DeviceKeysValid(t_in))
    => (IsOk(t_out.built) /\ t_out.back = Some(t_in))

\* C4 as amended: the round trip gives every field back as it was, present
\* or absent, except that a peer's pre-shared key of 32 zero bytes, a last
\* handshake of zero duration and a last handshake of more than i64::MAX
\* seconds come back absent.
C4_RoundTripUpToNormalization ==
    /\ (t_op = "device_round_trip" /\ DeviceKeysValid(t_in))
       => (IsOk(t_out.built) /\ t_out.back = Some(C4_DeviceBack(t_in)))
    /\ (t_op = "peer_round_trip" /\ PeerKeysValid(t_in))
       => (IsOk(t_out.built) /\ t_out.back = Some(C4_PeerBack(t_in)))

\* C4's case: a device with both keys and two peers, one of them with every
\* field present, came back as it was.
C4_Witness ==
    /\ t_op = "device_round_trip"
    /\ DeviceKeysValid(t_in)
    /\ IsSome(t_in.public_key) /\ IsSome(t_in.private_key)
    /\ IsSome(t_in.peers) /\ Len(Unwrap(t_in.peers)) = 2
    /\ \E i \in 1..2 : \A f \in DOMAIN PeerDefault :
           IsSome(Unwrap(t_in.peers)[i][f])
    /\ t_out.back = Some(t_in)

\* The rendering of a secret field of the name n: the placeholder when the
\* secret is present, None when it is absent.
C5_SecretField(n, secret) ==
    <<n, IF IsSome(secret) THEN <<"Some", Hidden>> ELSE <<"None">>>>

C6_KeyCodec ==
    /\ t_op = "key_round_trip" => t_out = Ok(t_in[2])
    /\ t_op = "decode_key"
       => /\ t_in[2] \in InvalidKeyTexts => IsInvalidKey(t_out)
          /\ t_in[2] \in ValidKeyTexts => IsOk(t_out)
    /\ (t_op = "peer_round_trip" /\ ~PeerKeysValid(t_in))
       => (IsInvalidKey(t_out.built) /\ t_out.back = None)
    /\ (t_op = "device_round_trip" /\ ~DeviceKeysValid(t_in))
       => (IsInvalidKey(t_out.built) /\ t_out.back = None)

\* C6's case: a device whose own keys are valid and whose second peer has a
\* public key of 33 bytes was built, and InvalidKey returned.
C6_Witness ==
    /\ t_op = "device_round_trip"
    /\ IsSome(t_in.public_key) /\ IsSome(t_in.private_key)
    /\ Unwrap(t_in.public_key) \in ValidKeyTexts
    /\ Unwrap(t_in.private_key) \in ValidKeyTexts
    /\ IsSome(t_in.peers) /\ Len(Unwrap(t_in.peers)) = 2
    /\ PeerKeysValid(Unwrap(t_in.peers)[1])
    /\ Unwrap(t_in.peers)[2].public_key = Some(Base64Encode(LongBytes))
    /\ IsInvalidKey(t_out.built)

\* The indices of the attributes of the name n in the attribute list attrs.
AttrIndices(attrs, n) == {i \in 1..Len(attrs) : attrs[i][1] = n}

\* The greatest element of a non-empty set of numbers.
Last(S) == CHOOSE i \in S : \A j \in S : j <= i

\* The peers a translator call gave out.
PeersOut ==
    CASE t_op = "peer_from" -> {t_out.peer}
      [] t_op = "peer_round_trip" /\ IsSome(t_out.back) -> {Unwrap(t_out.back)}
      [] t_op = "device_round_trip" /\ IsSome(t_out.back)
             /\ IsSome(Unwrap(t_out.back).peers) ->
             {Unwrap(Unwrap(t_out.back).peers)[i] :
                 i \in 1..Len(Unwrap(Unwrap(t_out.back).peers))}
      [] OTHER -> {}

\* C7: a wire peer whose last pre-shared-key attribute is 32 zero bytes
\* decodes to a peer without pre-shared key, one whose last is not zero to
\* the encoding of that key; no decoded peer has a pre-shared key that
\* decodes to zero bytes.
C7_PresharedKeyZeroIsAbsent ==
    /\ t_op = "peer_from"
       => LET psk == AttrIndices(t_in, "PresharedKey")
          IN  IF psk = {} THEN t_out.peer.preshared_key = None
              ELSE IF t_in[Last(psk)][2] = ZeroKey
                  THEN t_out.peer.preshared_key = None
              ELSE t_out.peer.preshared_key =
                       Some(Base64Encode(t_in[Last(psk)][2]))
    /\ \A p \in PeersOut :
           IsSome(p.preshared_key)
           => Base64Decode(Unwrap(p.preshared_key)) # Ok(ZeroKey)

\* C7's case: a key, then the zero key, decoded to no pre-shared key.
C7_Witness ==
    /\ t_op = "peer_from"
    /\ t_in = <<<<"PresharedKey", KeyA>>, <<"PresharedKey", ZeroKey>>>>
    /\ t_out.peer.preshared_key = None

\* x is a nanosecond count under one second, for an i64 x that is not
\* negative.
UnderOneSecond(x) ==
    x[3] = 0 /\ x[4] = 0 /\ ~U32AtLeastBillions(AsU32(x), 1)

\* C8: for a wire peer with a last-handshake attribute, the decoded
\* last_handshake is present exactly when the seconds are not negative, the
\* nanoseconds are within 0..999_999_999 and the two are not both zero, and
\* is then the seconds and the nanoseconds given; in every case the
\* conversion succeeds.
C8_LastHandshakePresentIffValid ==
    (t_op = "peer_from" /\ Len(t_in) = 1 /\ t_in[1][1] = "LastHandshake")
    => LET v     == t_in[1][2]
           valid == /\ I64NonNeg(v.seconds)
                    /\ I64NonNeg(v.nano_seconds)
                    /\ UnderOneSecond(v.nano_seconds)
                    /\ ~(v.seconds = I64Zero /\ v.nano_seconds = I64Zero)
       IN  /\ ~t_out.panicked
           /\ IsSome(t_out.peer.last_handshake) <=> valid
           /\ valid => t_out.peer.last_handshake =
                  Some(Duration(v.seconds,
                                v.nano_seconds[2] * Limb + v.nano_seconds[1]))

\* The entry of an allowed-IP list has an attribute of the name n.
HasAttr(entry, n) == \E j \in 1..Len(entry) : entry[j][1] = n

\* The entries of a wire list that have an address and a prefix length,
\* decoded, in their order.
RECURSIVE C9_Kept(_)
C9_Kept(list) ==
    IF Len(list) = 0 THEN <<>>
    ELSE LET e == Head(list)
         IN  (IF HasAttr(e, "IpAddr") /\ HasAttr(e, "Cidr")
                  THEN <<[prefix_length |-> e[Last(AttrIndices(e, "Cidr"))][2],
                          ip_addr |-> e[Last(AttrIndices(e, "IpAddr"))][2]]>>
              ELSE <<>>)
             \o C9_Kept(Tail(list))

\* C9: an allowed-IP entry decodes exactly when it has an address and a
\* prefix length, the family never needed; the peer translator drops the
\* others and keeps the rest in their order, and never fails; the decoded
\* list is present (empty if nothing is valid) when the attribute is, and
\* absent when it is not.
C9_AllowedIpsKeepValidEntries ==
    t_op = "peer_from"
    => LET ips == AttrIndices(t_in, "AllowedIps")
       IN  /\ ~t_out.panicked
           /\ ips = {} => t_out.peer.allowed_ips = None
           /\ ips # {} => t_out.peer.allowed_ips
                              = Some(C9_Kept(t_in[Last(ips)][2]))

\* C9's case: a list of an entry without prefix length and a complete one
\* without family decoded to the complete one alone.
C9_Witness ==
    /\ t_op = "peer_from"
    /\ Len(t_in) = 1
    /\ t_in[1] = <<"AllowedIps",
                   <<<<<<"Family", "Ipv4">>, <<"IpAddr", IpV4>>>>,
                     <<<<"IpAddr", IpV6>>, <<"Cidr", 0>>>>>>>>
    /\ t_out.peer.allowed_ips = Some(<<Ip6Any>>)
    /\ ~t_out.panicked

\* ------------------------------------- the claims on the stream of request

\* C11: the stream request returns yields, in the transport's order, the
\* classification of each item the transport delivers: what was yielded so
\* far is the classification of a prefix of the reply sequence, no item has
\* been pulled from the transport that was not asked for and yielded, and the
\* stream reports its end only when every item of the transport was yielded.
C11_RequestStreamOrderedAndLazy ==
    (op = "request" /\ stream_open)
    => /\ pulled = Len(yielded)
       /\ Len(yielded) <= Len(wire)
       /\ \A i \in 1..Len(yielded) : yielded[i] = Classified(i)
       /\ pc = "done" => Len(yielded) = Len(wire)

\* C11's case: a reply sequence of MaxReplies items with an error before a
\* device message, read to its end.
C11_Witness ==
    /\ op = "request"
    /\ pc = "done"
    /\ Len(wire) = MaxReplies
    /\ Len(yielded) = MaxReplies
    /\ \E i \in 1..(MaxReplies - 1) :
           /\ ~IsSuccessItem(wire[i])
           /\ IsSuccessItem(wire[i + 1])

\* --------------------------------------------- the claims on the submission

\* The call is get_by_name or set.
IsGetOrSet == op \in {"get_by_name", "set"}

\* What build returns for the arguments of the call.
BuiltFromArg ==
    IF op = "set" THEN WireguardParsedBuild(arg[1], "SetDevice")
    ELSE WireguardParsedBuild(
             [DeviceDefault EXCEPT !.iface_name = Some(arg[1])], "GetDevice")

\* C12: a get_by_name or set call submits to the transport at most once.
\* When the build of its message fails it returns that InvalidKey error,
\* having submitted nothing and consumed no reply; otherwise it submits
\* exactly once, and when that submission fails it returns an error of kind
\* NetlinkError that carries the envelope it tried to submit, having consumed
\* no reply.
C12_OneSubmissionNoRetry ==
    IsGetOrSet
    => /\ submissions <= 1
       /\ pulled <= 1
       /\ IsErr(BuiltFromArg)
              => /\ pc = "done"
                 /\ result = Some(BuiltFromArg)
                 /\ Unwrap(result)[2].kind = "InvalidKey"
                 /\ submissions = 0
                 /\ pulled = 0
                 /\ nl_msg = None
       /\ (IsOk(BuiltFromArg) /\ pc \in {"stream", "done"}) => submissions = 1
       /\ (IsOk(BuiltFromArg) /\ pc = "submit") => submissions = 0
       /\ (IsOk(BuiltFromArg) /\ pc = "done" /\ ~stream_open)
              => /\ IsErr(Unwrap(result))
                 /\ Unwrap(result)[2].kind = "NetlinkError"
                 /\ Unwrap(result)[2].netlink_msg =
                        Some(RequestEnvelope(ExpectedFlags, BuiltFromArg[2]))
                 /\ pulled = 0

\* C12's case: a set call whose message was built and whose one submission
\* failed.
C12_Witness ==
    /\ op = "set"
    /\ pc = "done"
    /\ IsOk(BuiltFromArg)
    /\ ~stream_open
    /\ submissions = 1
    /\ IsErr(Unwrap(result))

\* ------------------------------------ the claims on the submitted envelope

\* The message inside the envelope of the call.
EnvelopeMessage == Unwrap(nl_msg).payload[2].payload

\* The flags on the envelope of the call.
EnvelopeFlags == Unwrap(nl_msg).header.flags

\* C13: the envelope a call hands to the transport carries, for get_by_name,
\* the command GetDevice and the flags request, acknowledgment and dump and
\* no other; for set, the command SetDevice and the flags request and
\* acknowledgment and no other; for request, the flags the caller passed and
\* the caller's message with its command as it was.
C13_EnvelopeFlagsAndCommand ==
    IsSome(nl_msg)
    => /\ Unwrap(nl_msg).payload[1] = "InnerMessage"
       /\ op = "get_by_name"
              => /\ EnvelopeMessage.cmd = "GetDevice"
                 /\ EnvelopeFlags = NLM_F_REQUEST + NLM_F_ACK + NLM_F_DUMP
       /\ op = "set"
              => /\ EnvelopeMessage.cmd = "SetDevice"
                 /\ EnvelopeFlags = NLM_F_REQUEST + NLM_F_ACK
       /\ op = "request"
              => /\ EnvelopeFlags = arg[1]
                 /\ EnvelopeMessage = arg[2]

\* C13's case: a set call has submitted its envelope.
C13_Witness ==
    /\ op = "set"
    /\ submissions = 1
    /\ IsSome(nl_msg)
    /\ EnvelopeFlags = NLM_F_REQUEST + NLM_F_ACK
    /\ EnvelopeMessage.cmd = "SetDevice"

\* ---------------------------------------------- the claims on the rendering

\* The fields of a peer and the attributes they render to, in the order of
\* the rendering.
C14_PeerFields ==
    <<"endpoint", "public_key", "preshared_key", "persistent_keepalive",
      "last_handshake", "rx_bytes", "tx_bytes", "allowed_ips",
      "protocol_version">>

C14_PeerAttrs ==
    <<"Endpoint", "PublicKey", "PresharedKey", "PersistentKeepalive",
      "LastHandshake", "RxBytes", "TxBytes", "AllowedIps", "ProtocolVersion">>

\* The same for a device.
C14_DeviceFields ==
    <<"iface_name", "iface_index", "public_key", "private_key", "listen_port",
      "fwmark", "peers">>

C14_DeviceAttrs ==
    <<"IfName", "IfIndex", "PublicKey", "PrivateKey", "ListenPort", "Fwmark",
      "Peers">>

\* How many of the first k fields of rec are present.
C14_PresentUpTo(fields, rec, k) ==
    Cardinality({j \in 1..k : IsSome(rec[fields[j]])})

\* attrs has one attribute for each present field of rec and no other, in
\* the order of fields.
C14_OnePerPresentField(fields, names, rec, attrs) ==
    /\ Len(attrs) = C14_PresentUpTo(fields, rec, Len(fields))
    /\ \A k \in 1..Len(fields) :
           IsSome(rec[fields[k]])
           => attrs[C14_PresentUpTo(fields, rec, k)][1] = names[k]

\* The allowed-IP entry a carries the address and the prefix length of ip.
C14_EntryOf(ip, a) ==
    /\ \E j \in 1..Len(a) : a[j][1] = "IpAddr" /\ a[j][2] = ip.ip_addr
    /\ \E j \in 1..Len(a) : a[j][1] = "Cidr" /\ a[j][2] = ip.prefix_length

\* The attribute value a carries the value v of the peer field f.
C14_PeerValue(f, v, a) ==
    CASE f \in {"public_key", "preshared_key"} -> Base64Encode(a) = v
      [] f = "last_handshake" ->
             a = [seconds |-> v.secs, nano_seconds |-> I64(v.nanos)]
      [] f = "allowed_ips" ->
             /\ Len(a) = Len(v)
             /\ \A i \in 1..Len(v) : C14_EntryOf(v[i], a[i])
      [] OTHER -> a = v

\* attrs is the rendering of the peer p.
C14_PeerRendered(p, attrs) ==
    /\ C14_OnePerPresentField(C14_PeerFields, C14_PeerAttrs, p, attrs)
    /\ \A k \in 1..Len(C14_PeerFields) :
           IsSome(p[C14_PeerFields[k]])
           => C14_PeerValue(C14_PeerFields[k], Unwrap(p[C14_PeerFields[k]]),
                            attrs[C14_PresentUpTo(C14_PeerFields, p, k)][2])

\* The attribute value a carries the value v of the device field f.
C14_DeviceValue(f, v, a) ==
    CASE f \in {"public_key", "private_key"} -> Base64Encode(a) = v
      [] f = "peers" ->
             /\ Len(a) = Len(v)
             /\ \A i \in 1..Len(v) : C14_PeerRendered(v[i], a[i])
      [] OTHER -> a = v

\* attrs is the rendering of the device cfg.
C14_DeviceRendered(cfg, attrs) ==
    /\ C14_OnePerPresentField(C14_DeviceFields, C14_DeviceAttrs, cfg, attrs)
    /\ \A k \in 1..Len(C14_DeviceFields) :
           IsSome(cfg[C14_DeviceFields[k]])
           => C14_DeviceValue(C14_DeviceFields[k],
                              Unwrap(cfg[C14_DeviceFields[k]]),
                              attrs[C14_PresentUpTo(C14_DeviceFields, cfg, k)][2])

\* The keys of a peer in the order the build decodes them, each with the
\* name the build gives it.
C14_PeerKeys(p) ==
    (IF IsSome(p.public_key)
         THEN <<<<"peer.public_key", Unwrap(p.public_key)>>>> ELSE <<>>)
    \o (IF IsSome(p.preshared_key)
            THEN <<<<"peer.preshared_key", Unwrap(p.preshared_key)>>>>
        ELSE <<>>)

RECURSIVE C14_PeersKeys(_)
C14_PeersKeys(peers) ==
    IF Len(peers) = 0 THEN <<>>
    ELSE C14_PeerKeys(Head(peers)) \o C14_PeersKeys(Tail(peers))

\* The keys of a device: its own before its peers', the peers in list order.
C14_DeviceKeys(cfg) ==
    (IF IsSome(cfg.public_key)
         THEN <<<<"public_key", Unwrap(cfg.public_key)>>>> ELSE <<>>)
    \o (IF IsSome(cfg.private_key)
            THEN <<<<"private_key", Unwrap(cfg.private_key)>>>> ELSE <<>>)
    \o (IF IsSome(cfg.peers) THEN C14_PeersKeys(Unwrap(cfg.peers)) ELSE <<>>)

\* Some key of keys does not encode a key.
C14_SomeKeyBad(keys) == \E i \in 1..Len(keys) : keys[i][2] \notin ValidKeyTexts

\* The first of them.
C14_FirstBad(keys) ==
    CHOOSE i \in 1..Len(keys) :
        /\ keys[i][2] \notin ValidKeyTexts
        /\ \A j \in 1..(i - 1) : keys[j][2] \in ValidKeyTexts

\* built is the error of decoding the first bad key of keys.
C14_FirstKeyError(keys, built) ==
    /\ IsInvalidKey(built)
    /\ built = decode_key(keys[C14_FirstBad(keys)][1],
                          keys[C14_FirstBad(keys)][2])

\* C14: a build renders one attribute for each present field and none for an
\* absent one, in the fixed order of the fields (a device's peers last, a
\* peer without fields as an empty list), with peers and allowed-IP entries
\* in their input order; when a key does not decode, the build returns the
\* error of the first such key, the device's keys before the peers', the
\* peers in list order, and no message.
C14_BuildRendersFieldsInOrder ==
    /\ t_op = "peer_round_trip"
           => IF C14_SomeKeyBad(C14_PeerKeys(t_in))
                  THEN /\ C14_FirstKeyError(C14_PeerKeys(t_in), t_out.built)
                       /\ t_out.back = None
              ELSE /\ IsOk(t_out.built)
                   /\ C14_PeerRendered(t_in, t_out.built[2])
    /\ t_op = "device_round_trip"
           => IF C14_SomeKeyBad(C14_DeviceKeys(t_in))
                  THEN /\ C14_FirstKeyError(C14_DeviceKeys(t_in), t_out.built)
                       /\ t_out.back = None
              ELSE /\ IsOk(t_out.built)
                   /\ t_out.built[2].cmd = "SetDevice"
                   /\ C14_DeviceRendered(t_in, t_out.built[2].attributes)

\* C14's case: a device with every field present and MaxPeers peers, one of
\* them without fields and one with allowed IPs, rendered.
C14_Witness ==
    /\ t_op = "device_round_trip"
    /\ IsOk(t_out.built)
    /\ \A k \in 1..Len(C14_DeviceFields) : IsSome(t_in[C14_DeviceFields[k]])
    /\ Len(t_out.built[2].attributes) = Len(C14_DeviceFields)
    /\ Len(Unwrap(t_in.peers)) = MaxPeers
    /\ \E i \in 1..MaxPeers : Unwrap(t_in.peers)[i] = PeerDefault
    /\ \E i \in 1..MaxPeers :
           /\ IsSome(Unwrap(t_in.peers)[i].allowed_ips)
           /\ Len(Unwrap(Unwrap(t_in.peers)[i].allowed_ips)) >= 2

====
